---------------------------- MODULE Spec2Model ----------------------------
(***************************************************************************)
(* Model of src/src/main.rs: the packager-code pipeline                    *)
(*   fetch_valid_categories_by_countries -> map_establishments_to_countries*)
(*   -> geocode_all_countries -> write_packager_codes_csv.                 *)
(*                                                                         *)
(* The two external services (the directory API and the geocoder) are      *)
(* stubs: the first time a request is made its response is chosen from a   *)
(* bounded set, and the same request gets the same response from then on   *)
(* (also in a second run of the pipeline).  Strings are TLA+ strings,      *)
(* Option<T> is a sequence of length 0 (None) or 1 (Some), a Point<f64> is *)
(* a pair of integers <<x, y>>.                                            *)
(***************************************************************************)
EXTENDS Integers, Sequences, FiniteSets, TLC

VARIABLES
    pc,                   \* position in main: the stage about to run
    err,                  \* which `?` returned the error ("" while none)
    runNo,                \* 1 for the first run of the pipeline, 2 for the second
    prev,                 \* what the first run wrote and the map order it used
    stub,                 \* request -> response given by the external services
    requests,             \* requests sent in this run, in order
    offset,               \* `offset` of the retrieval loop in progress
    country_categories,   \* fetch_categories_by_countries: the accumulator / result
    countries_categories, \* main: the filtered categories
    establishments,       \* fetch_establishments_for_country_and_section: accumulator
    data,                 \* map_establishments_to_countries: the last `data`
    catIdx,               \* map_establishments_to_countries: next category (1-based)
    grouped_map,          \* the HashMap<String, Vec<Establishment>>
    iterOrder,            \* the order in which the HashMap yields its keys
    iter,                 \* geocode_all_countries: establishments still to visit
    e,                    \* geocode_all_countries: the establishment last visited
    address,              \* geocode_all_countries: the address last built
    f,                    \* geocode_all_countries: the coordinate last taken
    packager_codes,       \* the Vec<PackagerCode>
    nextRec,              \* write_packager_codes_csv: next record (1-based)
    wtr,                  \* the csv::Writer: header state and buffered lines
    stdout                \* lines that reached standard output

vars == <<pc, err, runNo, prev, stub, requests, offset, country_categories,
          countries_categories, establishments, data, catIdx, grouped_map,
          iterOrder, iter, e, address, f, packager_codes, nextRec, wtr, stdout>>

(***************************************************************************)
(* Bounds of the model.                                                    *)
(***************************************************************************)
\* Longest category page the directory stub returns in the lazily chosen world.
MaxCats == 3
\* Number of CSV lines the writer's buffer holds before it must be flushed.
BufRows == 1

(***************************************************************************)
(* Program constants.                                                      *)
(***************************************************************************)
CategoryPageSize == 5
EstablishmentPageSize == 1

None == <<>>
Some(v) == <<v>>

Min(a, b) == IF a <= b THEN a ELSE b

SeqsUpTo(S, n) == UNION {[1..k -> S] : k \in 0..n}

\* The elements of seq at the positions in I, in the order of seq.
Pick(seq, I) ==
    [k \in 1..Cardinality(I) |->
        seq[CHOOSE i \in I : Cardinality({j \in I : j < i}) = k - 1]]

\* The sub-listings of seq with at most n elements.
ListingsUpTo(seq, n) ==
    {Pick(seq, I) : I \in {J \in SUBSET (1..Len(seq)) : Cardinality(J) <= n}}

(***************************************************************************)
(* The records the directory API can return.                               *)
(***************************************************************************)
Category(cc, status, section, n) ==
    [country |-> cc, status |-> status, section |-> section,
     number_of_establishments |-> n]

\* The directory's listing of categories, sorted by country (sort=country.translation).
CatListing ==
    << Category("DE", "V", "02", 1),
       Category("DE", "X", "02", 5),
       Category("FR", "V", "01", 0),
       Category("FR", "V", "01", 5),
       Category("FR", "V", "02", 2),
       Category("FR", "V", "03", -1) >>

Establishment(name, street, postal, cc, approval) ==
    [operator_name |-> name, street |-> street, postal_code |-> postal,
     country |-> cc, approval_number |-> approval]

EstSet ==
    { Establishment(None, "Rue de Paris", Some("75000"), "FR", Some("AB1")),
      Establishment(Some("Acme"), ".", None, "DE", Some("X-7")),
      Establishment(Some("Bio, Inc"), "Main St", Some("12345"), "FR", Some("00123")),
      Establishment(Some("Acme"), "Main St", Some("12345"), "FR", None),
      Establishment(None, "", Some(""), "DE", Some("")) }

\* What the geocoder can answer: a list of points, first one used.
GeoResults ==
    { <<>>, << <<2, 1>> >>, << <<0, 1>> >>, << <<2, -1>> >>,
      << <<0, 0>>, <<2, 1>> >> }

(***************************************************************************)
(* Requests and responses.                                                 *)
(***************************************************************************)
Req(api, cc, section, off, max, addr) ==
    [api |-> api, cc |-> cc, section |-> section, offset |-> off,
     max |-> max, address |-> addr]

CatReq(off, max) == Req("categories", "", "", off, max, "")
EstReq(cc, section, off, max) == Req("establishments", cc, section, off, max, "")
GeoReq(addr) == Req("geocode", "", "", 0, 0, addr)

Ok(body) == [res |-> "ok", body |-> body]
Failed == [res |-> "err", body |-> <<>>]
Panicked == [res |-> "panic", body |-> <<>>]

\* The answers a service may give to a request it sees for the first time.
Answers(req) ==
    CASE req.api = "categories" ->
           {Failed} \cup {Ok(p) : p \in ListingsUpTo(CatListing, Min(req.max, MaxCats))}
      [] req.api = "establishments" ->
           {Failed} \cup {Ok(p) : p \in SeqsUpTo(EstSet, req.max)}
      [] OTHER ->
           {Failed, Panicked} \cup {Ok(p) : p \in GeoResults}

\* A stubbed service answers a repeated request as it did before.
Responses(req) == IF req \in DOMAIN stub THEN {stub[req]} ELSE Answers(req)

Remember(req, resp) == IF req \in DOMAIN stub THEN stub ELSE (req :> resp) @@ stub

NoPrev == [out |-> <<>>, order |-> <<>>]
NoWriter == [header |-> "write", buf |-> <<>>]

\* The program's own state at the start of main.
Fresh ==
    /\ pc = "fetch_categories"
    /\ err = ""
    /\ requests = <<>>
    /\ offset = 0
    /\ country_categories = <<>>
    /\ countries_categories = <<>>
    /\ establishments = <<>>
    /\ data = <<>>
    /\ catIdx = 1
    /\ grouped_map = <<>>
    /\ iterOrder = <<>>
    /\ iter = <<>>
    /\ e = None
    /\ address = ""
    /\ f = <<0, 0>>
    /\ packager_codes = <<>>
    /\ nextRec = 1
    /\ wtr = NoWriter
    /\ stdout = <<>>

Init ==
    /\ Fresh
    /\ runNo = 1
    /\ prev = NoPrev
    /\ stub = <<>>

(***************************************************************************)
(* Error propagation: every fallible call in main and below is followed by *)
(* `?`, which returns the error to the caller, up to the process boundary. *)
(***************************************************************************)
\* Faulty variant: the error is swallowed and main goes on to write what it has.
PcAfterErrSwallowed(at) == "write"

\* Where control goes when the call at stage `at` returns Err.
PcAfterErr(at) == "error"

(***************************************************************************)
(* Stage 1: fetch_categories_by_countries and the filter.                  *)
(***************************************************************************)
\* Faulty variant: the loops go on until an empty page.
NoBreakAfterPage == FALSE

\* The unconditional `break` that ends each retrieval loop after one page.
BreakAfterPage == TRUE

\* One iteration of the loop of fetch_categories_by_countries.
FetchCategoriesPage ==
    /\ pc = "fetch_categories"
    /\ LET req == CatReq(offset, CategoryPageSize) IN
       \E resp \in Responses(req) :
          /\ stub' = Remember(req, resp)
          /\ requests' = Append(requests, req)
          /\ IF resp.res # "ok"
                THEN /\ pc' = PcAfterErr("categories")
                     /\ err' = "categories"
                     /\ UNCHANGED <<offset, country_categories>>
             ELSE IF resp.body = <<>>
                THEN /\ pc' = "filter"
                     /\ UNCHANGED <<err, offset, country_categories>>
             ELSE /\ country_categories' = country_categories \o resp.body
                  /\ offset' = offset + CategoryPageSize
                  /\ pc' = IF BreakAfterPage THEN "filter" ELSE pc
                  /\ err' = err
    /\ UNCHANGED <<runNo, prev, countries_categories, establishments, data,
                   catIdx, grouped_map, iterOrder, iter, e, address, f,
                   packager_codes, nextRec, wtr, stdout>>

\* Faulty variant: >= 0 instead of > 0.
IsValidCategoryOrZero(current) ==
    current.status = "V" /\ current.number_of_establishments >= 0

\* The filter closure of fetch_valid_categories_by_countries.
IsValidCategory(current) ==
    LET country_is_valid == current.status = "V"
        section_is_not_empty == current.number_of_establishments > 0
    IN  country_is_valid /\ section_is_not_empty

FilterCategories ==
    /\ pc = "filter"
    /\ countries_categories' = SelectSeq(country_categories, IsValidCategory)
    /\ offset' = 0
    /\ pc' = "map"
    /\ UNCHANGED <<err, runNo, prev, stub, requests, country_categories,
                   establishments, data, catIdx, grouped_map, iterOrder, iter,
                   e, address, f, packager_codes, nextRec, wtr, stdout>>

(***************************************************************************)
(* Stage 2: map_establishments_to_countries.                               *)
(***************************************************************************)
\* Faulty variant: grouping by the country of the category.
KeyOfCategory(item, c) == c.country

\* The key an establishment is grouped under; c is the category that fetched it.
KeyOf(item, c) == item.country

\* grouped_map.entry(key).or_insert_with(Vec::new).push(item)
Insert(map, key, item) ==
    IF key \in DOMAIN map
       THEN [map EXCEPT ![key] = Append(@, item)]
       ELSE (key :> <<item>>) @@ map

\* The `while let Some(item) = stream.next().await` loop over `data`.
RECURSIVE GroupInto(_, _, _)
GroupInto(map, items, c) ==
    IF items = <<>> THEN map
    ELSE GroupInto(Insert(map, KeyOf(Head(items), c), Head(items)), Tail(items), c)

\* One iteration of the loop of fetch_establishments_for_country_and_section
\* for category catIdx; when the loop ends, its result is grouped into the map.
FetchEstablishmentsPage ==
    /\ pc = "map"
    /\ catIdx <= Len(countries_categories)
    /\ LET c == countries_categories[catIdx]
           req == EstReq(c.country, c.section, offset, EstablishmentPageSize)
       IN
       \E resp \in Responses(req) :
          /\ stub' = Remember(req, resp)
          /\ requests' = Append(requests, req)
          /\ IF resp.res # "ok"
                THEN /\ pc' = PcAfterErr("establishments")
                     /\ err' = "establishments"
                     /\ UNCHANGED <<offset, establishments, data, catIdx, grouped_map>>
             ELSE IF resp.body = <<>> \/ BreakAfterPage
                THEN /\ data' = establishments \o resp.body
                     /\ grouped_map' = GroupInto(grouped_map, data', c)
                     /\ catIdx' = catIdx + 1
                     /\ offset' = 0
                     /\ establishments' = <<>>
                     /\ UNCHANGED <<pc, err>>
             ELSE /\ establishments' = establishments \o resp.body
                  /\ offset' = offset + EstablishmentPageSize
                  /\ UNCHANGED <<pc, err, data, catIdx, grouped_map>>
    /\ UNCHANGED <<runNo, prev, country_categories, countries_categories,
                   iterOrder, iter, e, address, f, packager_codes, nextRec,
                   wtr, stdout>>

\* The orders in which a HashMap with key set S may yield its entries: the
\* hasher is seeded at random per map, so every order can occur.
Perms(S) ==
    {p \in [1..Cardinality(S) -> S] : \A i, j \in 1..Cardinality(S) : p[i] = p[j] => i = j}

\* Faulty variant: only the first entry the map yields is visited.
FlattenFirstGroup(order, map) == IF order = <<>> THEN <<>> ELSE map[Head(order)]

\* The nested `for` loops of geocode_all_countries, as one sequence.
RECURSIVE Flatten(_, _)
Flatten(order, map) ==
    IF order = <<>> THEN <<>>
    ELSE map[Head(order)] \o Flatten(Tail(order), map)

\* map_establishments_to_countries returns; geocode_all_countries starts to
\* iterate over the map.
MapReturn ==
    /\ pc = "map"
    /\ catIdx > Len(countries_categories)
    /\ \E order \in Perms(DOMAIN grouped_map) :
          /\ iterOrder' = order
          /\ iter' = Flatten(order, grouped_map)
    /\ pc' = "geocode"
    /\ UNCHANGED <<err, runNo, prev, stub, requests, offset, country_categories,
                   countries_categories, establishments, data, catIdx,
                   grouped_map, e, address, f, packager_codes, nextRec, wtr,
                   stdout>>

(***************************************************************************)
(* Stage 3: geocode_all_countries.                                         *)
(***************************************************************************)
\* [String]::join
RECURSIVE Join(_, _)
Join(parts, sep) ==
    IF parts = <<>> THEN ""
    ELSE IF Len(parts) = 1 THEN parts[1]
    ELSE parts[1] \o sep \o Join(Tail(parts), sep)

\* Faulty variant: a street value of "." is kept.
AddressComponentsKeepDot(street, postal_code, country) ==
    LET c1 == IF street # "" THEN <<street>> ELSE <<>>
        c2 == IF postal_code # None
                 THEN (IF postal_code[1] # "" THEN <<postal_code[1]>> ELSE <<>>)
                 ELSE <<>>
        c3 == IF country # "" THEN <<country>> ELSE <<>>
    IN  c1 \o c2 \o c3

\* address_components, pushed in the order street, postal code, country code.
AddressComponents(street, postal_code, country) ==
    LET c1 == IF street # "" /\ street # "." THEN <<street>> ELSE <<>>
        c2 == IF postal_code # None
                 THEN (IF postal_code[1] # "" THEN <<postal_code[1]>> ELSE <<>>)
                 ELSE <<>>
        c3 == IF country # "" THEN <<country>> ELSE <<>>
    IN  c1 \o c2 \o c3

AddressOf(est) ==
    Join(AddressComponents(est.street, est.postal_code, est.country), ", ")

\* The first `if` of the loop body: the establishment is skipped.
NoApprovalNumber(est) ==
    \/ est.approval_number = None
    \/ (est.approval_number # None /\ est.approval_number[1] = "")

\* Faulty variant: a provider error is propagated like a failed task.
JoinOrProviderFailed(resp) == resp.res # "ok"

\* task::spawn_blocking(..).await?: the blocking task itself failed (it panicked).
JoinFailed(resp) == resp.res = "panic"

\* osm.forward(&address).unwrap_or_default()
UnwrapOrDefault(resp) == IF resp.res = "ok" THEN resp.body ELSE <<>>

\* res.first().unwrap_or(&empty)
FirstOr(res, empty) == IF res = <<>> THEN empty ELSE res[1]

\* Faulty variant: && instead of ||.
OutOfRangeBoth(p) == p[1] <= 0 /\ p[2] <= 0

\* f.x() <= 0f64 || f.y() <= 0f64
OutOfRange(p) == p[1] <= 0 \/ p[2] <= 0

\* Faulty variant: the " EC" suffix is missing.
CodeOfNoSuffix(est) == est.country \o " " \o est.approval_number[1]

\* format!("{} {} EC", country code, approval number)
CodeOf(est) == est.country \o " " \o est.approval_number[1] \o " EC"

\* e.operator_name.clone().unwrap_or_default()
NameOf(est) == IF est.operator_name = None THEN "" ELSE est.operator_name[1]

PackagerCode(est, p) ==
    [name |-> NameOf(est), code |-> CodeOf(est), lat |-> p[1], lng |-> p[2]]

\* One pass through the body of the inner `for` loop.
GeocodeNext ==
    /\ pc = "geocode"
    /\ iter # <<>>
    /\ LET est == Head(iter) IN
       /\ e' = Some(est)
       /\ IF NoApprovalNumber(est)
             THEN /\ iter' = Tail(iter)
                  /\ UNCHANGED <<pc, err, stub, requests, address, f, packager_codes>>
          ELSE LET addr == AddressOf(est)
                   req == GeoReq(addr)
               IN
               \E resp \in Responses(req) :
                  /\ stub' = Remember(req, resp)
                  /\ requests' = Append(requests, req)
                  /\ address' = addr
                  /\ IF JoinFailed(resp)
                        THEN /\ pc' = PcAfterErr("geocode")
                             /\ err' = "geocode"
                             /\ UNCHANGED <<iter, f, packager_codes>>
                     ELSE LET res == UnwrapOrDefault(resp)
                              p == FirstOr(res, <<0, 0>>)
                          IN  /\ f' = p
                              /\ iter' = Tail(iter)
                              /\ packager_codes' =
                                    IF OutOfRange(p) THEN packager_codes
                                    ELSE Append(packager_codes, PackagerCode(est, p))
                              /\ UNCHANGED <<pc, err>>
    /\ UNCHANGED <<runNo, prev, offset, country_categories, countries_categories,
                   establishments, data, catIdx, grouped_map, iterOrder,
                   nextRec, wtr, stdout>>

\* geocode_all_countries returns Ok(packager_codes).
GeocodeReturn ==
    /\ pc = "geocode"
    /\ iter = <<>>
    /\ pc' = "write"
    /\ UNCHANGED <<err, runNo, prev, stub, requests, offset, country_categories,
                   countries_categories, establishments, data, catIdx,
                   grouped_map, iterOrder, iter, e, address, f, packager_codes,
                   nextRec, wtr, stdout>>

(***************************************************************************)
(* Stage 4: write_packager_codes_csv.  The csv::Writer buffers what it is  *)
(* given and hands the buffer to standard output when it is full and when  *)
(* flush is called; it writes the header with the first record serialized. *)
(* A write to standard output may fail.  When the function returns early   *)
(* through `?` the writer is dropped, and the drop flushes the buffer once *)
(* more, ignoring errors.  The buffer is counted in lines here.            *)
(***************************************************************************)
Header == <<"name", "code", "lat", "lng">>

\* The CSV line of one record: the fields of PackagerCode in declaration order.
Row(c) == <<c.name, c.code, c.lat, c.lng>>

\* The lines wtr.serialize(c) produces for a writer in header state hs.
SerializeLines(hs, c) == IF hs = "write" THEN <<Header, Row(c)>> ELSE <<Row(c)>>

\* Lines go to the buffer one by one; a full buffer is handed on first.
\* out: what is handed to standard output, buf: what stays buffered.
RECURSIVE Fill(_, _)
Fill(buf, lines) ==
    IF lines = <<>> THEN [out |-> <<>>, buf |-> buf]
    ELSE IF Len(buf) >= BufRows
       THEN LET r == Fill(<<Head(lines)>>, Tail(lines))
            IN  [out |-> buf \o r.out, buf |-> r.buf]
    ELSE Fill(Append(buf, Head(lines)), Tail(lines))

\* One pass through the `for c in packager_codes` loop: wtr.serialize(c)?
Serialize ==
    /\ pc = "write"
    /\ nextRec <= Len(packager_codes)
    /\ LET c == packager_codes[nextRec]
           r == Fill(wtr.buf, SerializeLines(wtr.header, c))
       IN
       \E wrote, dropWrote \in BOOLEAN :
          IF r.out = <<>> \/ wrote
             THEN /\ dropWrote
                  /\ stdout' = stdout \o r.out
                  /\ wtr' = [header |-> "did_write", buf |-> r.buf]
                  /\ nextRec' = nextRec + 1
                  /\ UNCHANGED <<pc, err>>
          ELSE /\ pc' = PcAfterErr("write")
               /\ err' = "write"
               /\ stdout' = IF dropWrote THEN stdout \o r.out ELSE stdout
               /\ wtr' = [header |-> "did_write", buf |-> <<>>]
               /\ UNCHANGED nextRec
    /\ UNCHANGED <<runNo, prev, stub, requests, offset, country_categories,
                   countries_categories, establishments, data, catIdx,
                   grouped_map, iterOrder, iter, e, address, f, packager_codes>>

\* wtr.flush()?; return Ok(()): main returns Ok(()) as well.
FlushAndReturn ==
    /\ pc = "write"
    /\ nextRec > Len(packager_codes)
    /\ \E wrote, dropWrote \in BOOLEAN :
          IF wtr.buf = <<>> \/ wrote
             THEN /\ dropWrote
                  /\ stdout' = stdout \o wtr.buf
                  /\ pc' = "done"
                  /\ err' = err
          ELSE /\ pc' = PcAfterErr("write")
               /\ err' = "write"
               /\ stdout' = IF dropWrote THEN stdout \o wtr.buf ELSE stdout
    /\ wtr' = [wtr EXCEPT !.buf = <<>>]
    /\ UNCHANGED <<runNo, prev, stub, requests, offset, country_categories,
                   countries_categories, establishments, data, catIdx,
                   grouped_map, iterOrder, iter, e, address, f, packager_codes,
                   nextRec>>

(***************************************************************************)
(* The pipeline is run a second time against the same stubbed services.    *)
(***************************************************************************)
Rerun ==
    /\ pc = "done"
    /\ runNo = 1
    /\ runNo' = 2
    /\ prev' = [out |-> stdout, order |-> iterOrder]
    /\ pc' = "fetch_categories"
    /\ requests' = <<>>
    /\ offset' = 0
    /\ country_categories' = <<>>
    /\ countries_categories' = <<>>
    /\ establishments' = <<>>
    /\ data' = <<>>
    /\ catIdx' = 1
    /\ grouped_map' = <<>>
    /\ iterOrder' = <<>>
    /\ iter' = <<>>
    /\ e' = None
    /\ address' = ""
    /\ f' = <<0, 0>>
    /\ packager_codes' = <<>>
    /\ nextRec' = 1
    /\ wtr' = NoWriter
    /\ stdout' = <<>>
    /\ UNCHANGED <<err, stub>>

Next ==
    \/ FetchCategoriesPage
    \/ FilterCategories
    \/ FetchEstablishmentsPage
    \/ MapReturn
    \/ GeocodeNext
    \/ GeocodeReturn
    \/ Serialize
    \/ FlushAndReturn
    \/ Rerun

Spec == Init /\ [][Next]_vars
(***************************************************************************)
(* geocode_all_countries called on a map that holds one establishment with *)
(* an approval number, for every combination of street value, postal code  *)
(* and country code.                                                       *)
(***************************************************************************)
Streets == {"", ".", "Main St"}
PostalCodes == {None, Some(""), Some("12345")}
CountryCodes == {"", "FR", "DE"}

AddressInputs ==
    {Establishment(None, s, p, c, Some("AB1")) :
        s \in Streets, p \in PostalCodes, c \in CountryCodes}

InitGeocode ==
    \E est \in AddressInputs :
       /\ pc = "geocode"
       /\ err = ""
       /\ runNo = 1
       /\ prev = NoPrev
       /\ stub = <<>>
       /\ requests = <<>>
       /\ offset = 0
       /\ country_categories = <<>>
       /\ countries_categories = <<>>
       /\ establishments = <<>>
       /\ data = <<>>
       /\ catIdx = 1
       /\ grouped_map = (est.country :> <<est>>)
       /\ iterOrder = <<est.country>>
       /\ iter = <<est>>
       /\ e = None
       /\ address = ""
       /\ f = <<0, 0>>
       /\ packager_codes = <<>>
       /\ nextRec = 1
       /\ wtr = NoWriter
       /\ stdout = <<>>

NextGeocode == GeocodeNext \/ GeocodeReturn

SpecGeocode == InitGeocode /\ [][NextGeocode]_vars

(***************************************************************************)
(* The whole pipeline against a directory whose category page is already   *)
(* fixed: any page of 0 to CategoryPageSize records.                       *)
(***************************************************************************)
FullPageCats == {Category("FR", "V", "01", 5), Category("FR", "V", "01", 0)}

InitFullPage ==
    /\ Fresh
    /\ runNo = 1
    /\ prev = NoPrev
    /\ \E page \in SeqsUpTo(FullPageCats, CategoryPageSize) :
          stub = (CatReq(0, CategoryPageSize) :> Ok(page))

SpecFullPage == InitFullPage /\ [][Next]_vars

(***************************************************************************)
(* Properties.                                                             *)
(***************************************************************************)
Range(seq) == {seq[i] : i \in 1..Len(seq)}

\* The establishments geocode_all_countries has visited so far, in order.
Visited ==
    LET all == Flatten(iterOrder, grouped_map)
    IN  SubSeq(all, 1, Len(all) - Len(iter))

HasApprovalNumber(est) ==
    /\ Len(est.approval_number) = 1
    /\ est.approval_number[1] # ""

\* What the geocoder stub answers for an address ("none" if never asked).
GeocoderAnswer(addr) ==
    IF GeoReq(addr) \in DOMAIN stub THEN stub[GeoReq(addr)] ELSE [res |-> "none", body |-> <<>>]

\* The first coordinate the geocoder returned for the establishment, or (0,0).
FirstCoordinate(est) ==
    LET a == GeocoderAnswer(AddressOf(est))
    IN  IF a.res = "ok" /\ Len(a.body) > 0 THEN a.body[1] ELSE <<0, 0>>

Accepted(est) ==
    /\ HasApprovalNumber(est)
    /\ FirstCoordinate(est)[1] > 0
    /\ FirstCoordinate(est)[2] > 0

AcceptedVisited == SelectSeq(Visited, Accepted)

\* C1: a PackagerCode is emitted for an establishment of the grouped map if and
\* only if its approval number is present and non-empty and the first geocoded
\* coordinate (or (0,0)) has both components > 0: the emitted records are, one
\* for one and in order, those of the accepted establishments visited, none
\* comes from an establishment without approval number, and all have lat > 0
\* and lng > 0.
C1_EmittedIffAccepted ==
    /\ Len(packager_codes) = Len(AcceptedVisited)
    /\ \A k \in 1..Len(packager_codes) :
          /\ k <= Len(AcceptedVisited)
          /\ HasApprovalNumber(AcceptedVisited[k])
          /\ packager_codes[k].lat = FirstCoordinate(AcceptedVisited[k])[1]
          /\ packager_codes[k].lng = FirstCoordinate(AcceptedVisited[k])[2]
          /\ packager_codes[k].lat > 0
          /\ packager_codes[k].lng > 0

C1_Witness ==
    /\ pc = "write"
    /\ \E i, j, k \in 1..Len(Visited) :
          /\ Accepted(Visited[i])
          /\ ~HasApprovalNumber(Visited[j])
          /\ HasApprovalNumber(Visited[k])
          /\ ~Accepted(Visited[k])
    /\ Len(packager_codes) = 1

\* The address of the claim, case by case.
AddressByCases(street, postal, cc) ==
    LET s == street # "" /\ street # "."
        p == postal # None /\ postal # Some("")
        c == cc # ""
        pv == IF p THEN postal[1] ELSE ""
    IN  CASE s /\ p /\ c -> street \o ", " \o pv \o ", " \o cc
          [] s /\ p /\ ~c -> street \o ", " \o pv
          [] s /\ ~p /\ c -> street \o ", " \o cc
          [] s /\ ~p /\ ~c -> street
          [] ~s /\ p /\ c -> pv \o ", " \o cc
          [] ~s /\ p /\ ~c -> pv
          [] ~s /\ ~p /\ c -> cc
          [] OTHER -> ""

\* C2: the address string sent to the geocoder is the ", "-join of the street
\* value (when non-empty and not "."), the postal code (when present and
\* non-empty) and the country code (when non-empty), in this order; so
\* ("Main St", "12345", "FR") gives "Main St, 12345, FR", (".", None, "FR") gives
\* "FR" and ("", "", "") gives the empty string.
C2_AddressJoin ==
    (e # None /\ HasApprovalNumber(e[1]) /\ requests # <<>>) =>
       LET est == e[1]
           sent == requests[Len(requests)]
       IN  /\ sent.api = "geocode"
           /\ sent.address = AddressByCases(est.street, est.postal_code, est.country)
           /\ address = sent.address
           /\ (est.street = "Main St" /\ est.postal_code = Some("12345") /\ est.country = "FR")
                 => sent.address = "Main St, 12345, FR"
           /\ (est.street = "." /\ est.postal_code = None /\ est.country = "FR")
                 => sent.address = "FR"
           /\ (est.street = "" /\ est.postal_code = Some("") /\ est.country = "")
                 => sent.address = ""

C2_Witness ==
    /\ e = Some(Establishment(None, ".", None, "FR", Some("AB1")))
    /\ requests = <<GeoReq("FR")>>
    /\ address = "FR"
    /\ pc = "geocode"

\* C3: every emitted PackagerCode has code "<countryCode> <approvalNumber> EC"
\* with the establishment's own country code and its approval number verbatim,
\* name equal to the operator name or "" when absent, and lat/lng equal to the
\* first geocoded coordinate.
C3_RecordFields ==
    \A k \in 1..Len(packager_codes) :
       k <= Len(AcceptedVisited) =>
          LET est == AcceptedVisited[k]
              r == packager_codes[k]
          IN  /\ r.code = est.country \o " " \o est.approval_number[1] \o " EC"
              /\ r.name = (IF est.operator_name = None THEN "" ELSE est.operator_name[1])
              /\ <<r.lat, r.lng>> = FirstCoordinate(est)
              /\ (est.country = "FR" /\ est.approval_number = Some("00123"))
                    => r.code = "FR 00123 EC"

C3_Witness ==
    /\ pc = "write"
    /\ Len(packager_codes) = 2
    /\ [name |-> "", code |-> "FR AB1 EC", lat |-> 2, lng |-> 1] \in Range(packager_codes)
    /\ \E r \in Range(packager_codes) : r.name = "Bio, Inc" /\ r.code = "FR 00123 EC"

\* The categories fetch_categories_by_countries returned (valid once the fetch
\* stage is over without error).
CategoriesFetched == pc \notin {"fetch_categories", "filter"} /\ err # "categories"

\* C4: fetch_valid_categories_by_countries returns exactly the fetched
\* categories, in fetched order, with country.status.id = "V" and
\* numberOfEstablishments > 0.
C4_ValidCategories ==
    CategoriesFetched =>
       LET Keep(c) == c.status = "V" /\ c.number_of_establishments > 0 IN
       /\ countries_categories = SelectSeq(country_categories, Keep)
       /\ \A c \in Range(country_categories) :
             /\ (c.status = "V" /\ c.number_of_establishments = 0)
                   => c \notin Range(countries_categories)
             /\ (c.status = "X" /\ c.number_of_establishments = 5)
                   => c \notin Range(countries_categories)
             /\ (c.status = "V" /\ c.number_of_establishments > 0)
                   => c \in Range(countries_categories)

C4_Witness ==
    /\ pc = "map"
    /\ country_categories =
          <<Category("DE", "X", "02", 5), Category("FR", "V", "01", 0),
            Category("FR", "V", "02", 2)>>
    /\ countries_categories = <<Category("FR", "V", "02", 2)>>

Rows(codes) == [i \in 1..Len(codes) |-> <<codes[i].name, codes[i].code, codes[i].lat, codes[i].lng>>]

\* C5: for any sequence of records passed to write_packager_codes_csv, the
\* empty one included, standard output holds the header row name,code,lat,lng
\* and then one row per record, in input order.
C5_HeaderThenRows ==
    pc = "done" => stdout = <<Header>> \o Rows(packager_codes)

\* C5, what the writer does: the header goes out with the first record, so a
\* non-empty sequence gives the header and one row per record in input order,
\* and the empty sequence gives no output at all.
C5_HeaderWithFirstRecord ==
    pc = "done" =>
       stdout = IF packager_codes = <<>> THEN <<>>
                ELSE <<Header>> \o Rows(packager_codes)

Count(seq, x) == Cardinality({i \in 1..Len(seq) : seq[i] = x})

SameRows(a, b) ==
    /\ Len(a) = Len(b)
    /\ \A x \in Range(a) \cup Range(b) : Count(a, x) = Count(b, x)

\* C6 as stated: two runs against identical stubbed responses write identical
\* output, order of rows included.
C6_SameOutput ==
    (runNo = 2 /\ pc = "done") => stdout = prev.out

\* C6 as amended: two runs against identical stubbed responses that both
\* complete write the same rows, each the same number of times; the rows are in
\* the same order whenever the hash map yields its keys in the same order, and
\* otherwise the groups of rows of different countries may change places.
C6_SameRowsUpToGroupOrder ==
    (runNo = 2 /\ pc = "done") =>
       /\ SameRows(stdout, prev.out)
       /\ (iterOrder = prev.order => stdout = prev.out)
       /\ (Cardinality(DOMAIN grouped_map) <= 1 => stdout = prev.out)

C6_Witness ==
    /\ runNo = 2
    /\ pc = "done"
    /\ Len(stdout) = 3
    /\ iterOrder # prev.order
    /\ stdout # prev.out

\* C7 as stated: in every run that ends in an error, nothing has been written
\* to standard output.
C7_NoOutputOnError ==
    err # "" => stdout = <<>>

\* C7 as amended: the first error aborts the run with no retry, no further
\* stage or request is executed after it, and when the error is a
\* transport/HTTP, deserialization or URL-construction error (or a failed
\* geocoding task) nothing has been written to standard output; after a
\* CSV-write error, lines written before it may remain on standard output.
C7_AbortWithoutOutput ==
    /\ [](err \notin {"", "write"} => (pc = "error" /\ stdout = <<>>))
    /\ [](err = "write" => pc = "error")
    /\ [][err = ""]_vars

C7_Witness ==
    /\ pc = "error"
    /\ err = "establishments"
    /\ Len(requests) = 3
    /\ DOMAIN grouped_map # {}
    /\ stdout = <<>>

\* C8: a geocoding-provider error for an establishment is not fatal: it counts
\* as zero results, the coordinate used is (0,0), the establishment produces no
\* PackagerCode and geocode_all_countries goes on with the next establishment.
C8_ProviderErrorSkips ==
    [][ (/\ pc = "geocode"
         /\ iter # <<>>
         /\ HasApprovalNumber(Head(iter))
         /\ GeoReq(AddressOf(Head(iter))) \in DOMAIN stub'
         /\ stub'[GeoReq(AddressOf(Head(iter)))].res = "err")
        => (/\ pc' = "geocode"
            /\ err' = ""
            /\ f' = <<0, 0>>
            /\ packager_codes' = packager_codes
            /\ iter' = Tail(iter)) ]_vars

C8_Witness ==
    /\ pc = "write"
    /\ Len(Visited) = 2
    /\ GeocoderAnswer(AddressOf(Visited[1])).res = "err"
    /\ HasApprovalNumber(Visited[1])
    /\ Len(packager_codes) = 1

\* The page of establishments the directory returned for the i-th category.
PageOf(i) ==
    LET c == countries_categories[i]
        req == EstReq(c.country, c.section, 0, EstablishmentPageSize)
    IN  IF req \in DOMAIN stub /\ stub[req].res = "ok" THEN stub[req].body ELSE <<>>

RECURSIVE PagesUpTo(_)
PagesUpTo(n) == IF n = 0 THEN <<>> ELSE PagesUpTo(n - 1) \o PageOf(n)

\* C9: every establishment stored under key k has its own country code equal
\* to k, every fetched establishment is in the map exactly once, and no entry
\* of the map is empty.
C9_GroupedByOwnCountry ==
    LET fetched == PagesUpTo(catIdx - 1)
        total == Len(Flatten(CHOOSE p \in Perms(DOMAIN grouped_map) : TRUE, grouped_map))
    IN  /\ \A k \in DOMAIN grouped_map :
              /\ grouped_map[k] # <<>>
              /\ \A i \in 1..Len(grouped_map[k]) : grouped_map[k][i].country = k
              /\ LET Mine(x) == x.country = k
                 IN  grouped_map[k] = SelectSeq(fetched, Mine)
        /\ \A x \in Range(fetched) : x.country \in DOMAIN grouped_map
        /\ total = Len(fetched)

C9_Witness ==
    /\ pc = "geocode"
    /\ Len(countries_categories) = 2
    /\ \E i \in 1..2 :
          /\ PageOf(i) # <<>>
          /\ PageOf(i)[1].country # countries_categories[i].country
    /\ Cardinality(DOMAIN grouped_map) = 2

CategoryRequests == LET Is(r) == r.api = "categories" IN SelectSeq(requests, Is)
EstablishmentRequests == LET Is(r) == r.api = "establishments" IN SelectSeq(requests, Is)

\* C10: each retrieval loop issues exactly one page request, at offset 0 with
\* the fixed page size (5 for categories, 1 for establishments), and returns
\* exactly the records of that page, whether it is empty, short or full.
C10_OnePagePerCall ==
    /\ Len(CategoryRequests) = (IF pc = "fetch_categories" THEN 0 ELSE 1)
    /\ \A i \in 1..Len(CategoryRequests) : CategoryRequests[i] = CatReq(0, 5)
    /\ CategoriesFetched => country_categories = stub[CatReq(0, 5)].body
    /\ Len(EstablishmentRequests) =
          (catIdx - 1) + (IF err = "establishments" THEN 1 ELSE 0)
    /\ \A i \in 1..Len(EstablishmentRequests) :
          /\ i <= Len(countries_categories)
          /\ EstablishmentRequests[i] =
                EstReq(countries_categories[i].country,
                       countries_categories[i].section, 0, 1)
    /\ (catIdx > 1 /\ pc # "fetch_categories") => data = PageOf(catIdx - 1)
    /\ Len(establishments) = 0

C10_Witness ==
    /\ pc = "geocode"
    /\ Len(country_categories) = CategoryPageSize
    /\ Len(countries_categories) = 2
    /\ Len(requests) = 3
    /\ "FR" \in DOMAIN grouped_map
    /\ Len(grouped_map["FR"]) = 2

=============================================================================
